---- MODULE Spec2Model ----
(***************************************************************************)
(* A model of pyasic's ePIC miner support:                                 *)
(*   - the HTTP transport client EPICWebAPI (src/pyasic/web/epicminer.py): *)
(*     send_command, send_privileged_command, multicommand and the         *)
(*     per-endpoint wrappers;                                              *)
(*   - the EPICMiner backend (src/pyasic/miners/backends/epicminer.py):    *)
(*     the field registry EPICMINER_DATA_LOC and the get_* extractors;     *)
(*   - the aggregation round ("collect") that drives them.                 *)
(***************************************************************************)
EXTENDS Integers, Sequences, FiniteSets, TLC

(***************************************************************************)
(* Python values.  Every value is a record of one shape, with the field of *)
(* its type set: b of a bool, n of an int, s of a str, items of a list,    *)
(* pairs of a dict (its <<key, value>> pairs in insertion order), n/d of a *)
(* float.                                                                  *)
(***************************************************************************)
Py(ty, b, n, d, s, items, pairs) ==
    [ty |-> ty, b |-> b, n |-> n, d |-> d, s |-> s, items |-> items, pairs |-> pairs]

PyNone == Py("None", FALSE, 0, 1, "", <<>>, <<>>)

PyBool(b) == Py("bool", b, 0, 1, "", <<>>, <<>>)

PyInt(n) == Py("int", FALSE, n, 1, "", <<>>, <<>>)

PyStr(s) == Py("str", FALSE, 0, 1, s, <<>>, <<>>)

PyDict(pairs) == Py("dict", FALSE, 0, 1, "", <<>>, pairs)

PyList(items) == Py("list", FALSE, 0, 1, "", items, <<>>)

RECURSIVE Gcd(_, _)
Gcd(a, b) == IF b = 0 THEN a ELSE Gcd(b, a % b)

Abs(x) == IF x < 0 THEN -x ELSE x

\* a float, kept exact: the fraction n/d in lowest terms, d > 0
PyFloat(n, d) ==
    LET g == Gcd(Abs(n), Abs(d))
        sign == IF d < 0 THEN -1 ELSE 1
    IN Py("float", FALSE, (sign * n) \div g, (sign * d) \div g, "", <<>>, <<>>)

Range(s) == {s[i] : i \in 1..Len(s)}

\* key in d
HasKey(d, k) == \E i \in 1..Len(d.pairs) : d.pairs[i][1] = k

\* d[key], for a key that is present
Get(d, k) == d.pairs[CHOOSE i \in 1..Len(d.pairs) : d.pairs[i][1] = k][2]

Keys(d) == {d.pairs[i][1] : i \in 1..Len(d.pairs)}

(***************************************************************************)
(* JSON text, as the sequence of its tokens.  json.dumps writes it,        *)
(* json.loads (Response.json) reads it back or fails.                      *)
(***************************************************************************)
Tok(k, s) == [k |-> k, s |-> s, n |-> 0]

NumTok(n) == [k |-> "num", s |-> "", n |-> n]

P(c) == Tok("punct", c)

RECURSIVE JsonDumps(_)
RECURSIVE DumpItems(_, _)
RECURSIVE DumpElems(_, _)
DumpItems(pairs, i) ==
    IF i > Len(pairs) THEN <<>>
    ELSE (IF i > 1 THEN <<P(",")>> ELSE <<>>)
         \o <<Tok("str", pairs[i][1]), P(":")>>
         \o JsonDumps(pairs[i][2])
         \o DumpItems(pairs, i + 1)

DumpElems(items, i) ==
    IF i > Len(items) THEN <<>>
    ELSE (IF i > 1 THEN <<P(",")>> ELSE <<>>)
         \o JsonDumps(items[i])
         \o DumpElems(items, i + 1)

JsonDumps(val) ==
    CASE val.ty = "None" -> <<Tok("lit", "null")>>
      [] val.ty = "bool" -> <<Tok("lit", IF val.b THEN "true" ELSE "false")>>
      [] val.ty = "int"  -> <<NumTok(val.n)>>
      [] val.ty = "str"  -> <<Tok("str", val.s)>>
      [] val.ty = "dict" -> <<P("{")>> \o DumpItems(val.pairs, 1) \o <<P("}")>>
      [] val.ty = "list" -> <<P("[")>> \o DumpElems(val.items, 1) \o <<P("]")>>

(***************************************************************************)
(* What the device's endpoints answer: the decoded documents, and the      *)
(* texts the transport client reads.                                       *)
(***************************************************************************)
Board(hashrate, temperature) ==
    PyDict(<< <<"Hashrate", PyList(<<PyInt(hashrate)>>)>>, <<"Temperature", PyInt(temperature)>> >>)

SummaryA ==
    PyDict(<< <<"Software", PyStr("v1.0")>>,
              <<"Hostname", PyStr("minerA")>>,
              <<"HBs", PyList(<<Board(31000000, 60), Board(32500000, 62), Board(30000000, 67)>>)>>,
              <<"Power Supply Stats",
                PyDict(<< <<"Input Power", PyInt(3000)>>, <<"Target Voltage", PyInt(13)>> >>)>>,
              <<"Fans Rpm", PyDict(<< <<"Fans Speed 1", PyInt(4000)>>, <<"Fans Speed 2", PyInt(4100)>> >>)>>,
              <<"StratumConfigs",
                PyList(<<PyDict(<< <<"pool", PyStr("stratum+tcp://pool.a:3333")>>,
                                   <<"login", PyStr("worker")>> >>)>>)>>,
              <<"Status", PyDict(<< <<"Operating State", PyStr("Mining")>> >>)>>,
              <<"Session", PyDict(<< <<"Uptime", PyInt(1200)>> >>)>> >>)

\* another firmware: no Hostname, one board, a pool entry without a login, no Session
SummaryB ==
    PyDict(<< <<"Software", PyStr("v2.0")>>,
              <<"HBs", PyList(<<Board(29000000, 58)>>)>>,
              <<"StratumConfigs",
                PyList(<<PyDict(<< <<"pool", PyStr("stratum2+tcp://pool.b:3333")>> >>)>>)>> >>)

NetworkA == PyDict(<< <<"dhcp", PyDict(<< <<"mac_address", PyStr("aa:bb:cc:00:11:22")>> >>)>> >>)

\* a statically configured device: no "dhcp" entry
NetworkStatic == PyDict(<< <<"static", PyDict(<< <<"address", PyStr("10.0.0.7")>> >>)>> >>)

HashrateA ==
    PyList(<<PyDict(<< <<"Total", PyList(<<PyInt(95000000)>>)>> >>),
             PyDict(<< <<"Total", PyList(<<PyInt(500000)>>)>> >>)>>)

\* a hashrate answer whose entry has no "Total"
HashrateNoTotal == PyList(<<PyDict(<< <<"Error", PyStr("busy")>> >>)>>)

Commands == {"summary", "network", "hashrate"}

Bodies(command) ==
    CASE command = "summary" -> {SummaryA, SummaryB}
      [] command = "network" -> {NetworkA, NetworkStatic}
      [] command = "hashrate" -> {HashrateA, HashrateNoTotal}
      [] OTHER -> {}

\* response bodies that are JSON documents
GoodBodies ==
    {JsonDumps(PyDict(<< <<"result", PyBool(TRUE)>> >>)),
     JsonDumps(PyDict(<<>>)),
     JsonDumps(PyDict(<< <<"Hostname", PyStr("miner1")>>, <<"HBs", PyList(<<PyInt(60)>>)>> >>))}

\* response bodies that are not: a truncated document, an empty body, an error page
BadBodies == {<<P("{"), Tok("str", "result")>>, <<>>, <<Tok("lit", "<html>")>>}

\* a response body whose bytes are not text in any encoding json detects: a stray 0xff
InvalidBytesBodies == {<<P("{"), Tok("str", "Hostname"), P(":"), Tok("bytes", "ff"), P("}")>>}

\* the body of a 401 answer
AuthErrorBody == JsonDumps(PyDict(<< <<"error", PyStr("auth")>> >>))

\* every text a response of the model carries
Texts ==
    GoodBodies \cup BadBodies \cup InvalidBytesBodies \cup {AuthErrorBody}
    \cup UNION {{JsonDumps(b) : b \in Bodies(c)} : c \in Commands}

\* the result of a failed parse
ParseFail == [ok |-> FALSE, val |-> PyNone, next |-> 0]

ParseOk(val, next) == [ok |-> TRUE, val |-> val, next |-> next]

IsTok(toks, i, tok) == i <= Len(toks) /\ toks[i] = tok

RECURSIVE ParseValue(_, _)
RECURSIVE ParseItems(_, _, _)
RECURSIVE ParseElems(_, _, _)
ParseItems(toks, i, acc) ==
    IF i + 1 <= Len(toks) /\ toks[i].k = "str" /\ toks[i + 1] = P(":")
    THEN LET r == ParseValue(toks, i + 2) IN
         IF ~r.ok THEN ParseFail
         ELSE LET acc2 == Append(acc, <<toks[i].s, r.val>>) IN
              IF IsTok(toks, r.next, P(",")) THEN ParseItems(toks, r.next + 1, acc2)
              ELSE IF IsTok(toks, r.next, P("}")) THEN ParseOk(PyDict(acc2), r.next + 1)
              ELSE ParseFail
    ELSE ParseFail

ParseElems(toks, i, acc) ==
    LET r == ParseValue(toks, i) IN
    IF ~r.ok THEN ParseFail
    ELSE LET acc2 == Append(acc, r.val) IN
         IF IsTok(toks, r.next, P(",")) THEN ParseElems(toks, r.next + 1, acc2)
         ELSE IF IsTok(toks, r.next, P("]")) THEN ParseOk(PyList(acc2), r.next + 1)
         ELSE ParseFail

ParseValue(toks, i) ==
    IF i > Len(toks) THEN ParseFail
    ELSE LET t == toks[i] IN
         CASE t.k = "lit" ->
                  IF t.s = "null" THEN ParseOk(PyNone, i + 1)
                  ELSE IF t.s = "true" THEN ParseOk(PyBool(TRUE), i + 1)
                  ELSE IF t.s = "false" THEN ParseOk(PyBool(FALSE), i + 1)
                  ELSE ParseFail
           [] t.k = "num" -> ParseOk(PyInt(t.n), i + 1)
           [] t.k = "str" -> ParseOk(PyStr(t.s), i + 1)
           [] t.k = "punct" ->
                  IF t.s = "{"
                  THEN IF IsTok(toks, i + 1, P("}")) THEN ParseOk(PyDict(<<>>), i + 2)
                       ELSE ParseItems(toks, i + 1, <<>>)
                  ELSE IF t.s = "["
                  THEN IF IsTok(toks, i + 1, P("]")) THEN ParseOk(PyList(<<>>), i + 2)
                       ELSE ParseElems(toks, i + 1, <<>>)
                  ELSE ParseFail
           [] OTHER -> ParseFail

\* json.loads of the body's bytes: they are decoded to text (UnicodeDecodeError, a
\* ValueError that is no JSONDecodeError, when they are not text), and the whole text
\* is one value: the decoded value, or a JSONDecodeError
Decode(toks) ==
    IF \E i \in 1..Len(toks) : toks[i].k = "bytes"
    THEN [ok |-> FALSE, val |-> PyNone, err |-> "UnicodeDecodeError"]
    ELSE LET r == ParseValue(toks, 1) IN
         IF r.ok /\ r.next = Len(toks) + 1
         THEN [ok |-> TRUE, val |-> r.val, err |-> ""]
         ELSE [ok |-> FALSE, val |-> PyNone, err |-> "JSONDecodeError"]

\* the device's texts, decoded once
Decoded == [t \in Texts |-> Decode(t)]

\* json.loads
JsonLoads(toks) == IF toks \in Texts THEN Decoded[toks] ELSE Decode(toks)


(***************************************************************************)
(* EPICWebAPI: the transport client.                                       *)
(***************************************************************************)
VARIABLES
    wpc,        \* where the client's current call is: "idle", "inflight", "returned"
    wcall,      \* the call: the wrapper, the function it reaches, its arguments
    wreqs,      \* the HTTP requests the call has issued, in order
    wtasks,     \* per request: pending, or done with the outcome of its exchange
    wret        \* what the call returned or raised

webvars == <<wpc, wcall, wreqs, wtasks, wret>>

(***************************************************************************)
(* EPICMiner and one aggregation round over it.                            *)
(***************************************************************************)
VARIABLES
    fw_ver,     \* self.fw_ver
    hostname,   \* self.hostname
    model,      \* self.model
    epc,        \* the round: "idle", "fetching", "extracting", "done", "failed"
    request,    \* the set of field names the caller asked for
    batch,      \* the commands of the round's fan-out, while it is in flight
    cache,      \* the round's resources: per fetched command, what the fan-out gave
    ext,        \* per field to extract: "todo", "waiting" (for its own request), "done"
    result,     \* the values recorded so far, by field
    sent,       \* per command, the requests sent for it in this round
    anyOk       \* whether a transport call of this round has succeeded

selfvars == <<fw_ver, hostname, model>>

roundvars == <<epc, request, batch, cache, ext, result, sent, anyOk>>

\* a call of one extractor by itself, outside a round: where it is ("idle",
\* "fetching" its own resource, "returned"), the method, the resource it was handed,
\* what its own request gave, and what it returned or raised
VARIABLE direct

engvars ==
    <<fw_ver, hostname, model, epc, request, batch, cache, ext, result, sent, anyOk, direct>>

\* the device's fixed command port, as in the url f"http://{self.ip}:4028/{command}"
Port == 4028

\* timeout=15 of client.post
PostTimeout == 15

\* httpx.AsyncClient() is built with no timeout argument: httpx's default applies
ClientDefaultTimeout == 5

\* self.ip
Ip == "10.0.0.7"

\* self.pwd = PyasicSettings().global_epicminer_password
Pwd == PyStr("letmein")

\* the subclasses of httpx.HTTPError that a failed exchange raises
HTTPError == {"ConnectError", "ReadTimeout", "RemoteProtocolError"}

Url(command) == [host |-> Ip, port |-> Port, path |-> "/" \o command]

\* client.get(url)
ClientGet(url) ==
    [method |-> "GET", url |-> url, body |-> <<>>, timeout |-> {ClientDefaultTimeout}]

\* client.post(url, data=..., timeout=15)
ClientPost(url, data) ==
    [method |-> "POST", url |-> url, body |-> data, timeout |-> {PostTimeout}]

\* send_command as it would be if it never posted its parameters
SendCommandRequestAlwaysGet(command, parameters) == ClientGet(Url(command))

\* the request send_command issues: POST when there are parameters, else GET
SendCommandRequest(command, parameters) ==
    IF Len(parameters) > 0
    THEN ClientPost(Url(command), JsonDumps(PyDict(parameters)))
    ELSE ClientGet(Url(command))

Return(val) == [kind |-> "return", val |-> val, exc |-> ""]

Raise(exc) == [kind |-> "raise", val |-> PyNone, exc |-> exc]

\* the outcome of one HTTP exchange: an exception, or a response
Exception(exc) == [kind |-> "exception", exc |-> exc, status |-> 0, body |-> <<>>]

Response(status, body) == [kind |-> "response", exc |-> "", status |-> status, body |-> body]

\* what send_command returns (or raises) for an outcome of its exchange
SendCommandResult(outcome) ==
    IF outcome.kind = "exception"
    THEN IF outcome.exc \in HTTPError THEN Return(PyNone) ELSE Raise(outcome.exc)
    ELSE IF outcome.status = 200
         THEN LET j == JsonLoads(outcome.body) IN
              IF j.ok THEN Return(j.val)
              ELSE IF j.err = "JSONDecodeError" THEN Return(PyNone)
              ELSE Raise(j.err)
         ELSE Return(PyNone)

\* the keyword arguments send_privileged_command passes on: **parameters, password=self.pwd
PrivilegedParameters(parameters) == Append(parameters, <<"password", Pwd>>)

\* what _handle_multicommand returns (or raises) for an outcome of its GET
HandleMulticommandResult(command, outcome) ==
    IF outcome.kind = "exception"
    THEN IF outcome.exc \in HTTPError
         THEN Return(PyDict(<< <<command, PyDict(<<>>)>> >>))
         ELSE Raise(outcome.exc)
    ELSE IF outcome.status = 200 /\ JsonLoads(outcome.body).ok
         THEN Return(PyDict(<< <<command, JsonLoads(outcome.body).val>> >>))
         ELSE IF outcome.status = 200 /\ JsonLoads(outcome.body).err # "JSONDecodeError"
         THEN Raise(JsonLoads(outcome.body).err)
         ELSE Return(PyDict(<< <<command, PyDict(<<>>)>> >>))

\* d[k] = val on an insertion-ordered dict
DictSet(d, k, val) ==
    IF HasKey(d, k)
    THEN PyDict([i \in 1..Len(d.pairs) |-> IF d.pairs[i][1] = k THEN <<k, val>> ELSE d.pairs[i]])
    ELSE PyDict(Append(d.pairs, <<k, val>>))

\* d.update(other)
RECURSIVE DictUpdateFrom(_, _, _)
DictUpdateFrom(d, other, i) ==
    IF i > Len(other.pairs) THEN d
    ELSE DictUpdateFrom(DictSet(d, other.pairs[i][1], other.pairs[i][2]), other, i + 1)

DictUpdate(d, other) == DictUpdateFrom(d, other, 1)

\* data = {}; for item in all_data: data.update(item)
RECURSIVE MergeAll(_, _, _)
MergeAll(data, all_data, i) ==
    IF i > Len(all_data) THEN data
    ELSE MergeAll(DictUpdate(data, all_data[i]), all_data, i + 1)

\* what multicommand returns once gather has every task's result
MulticommandResult(commands, outcomes) ==
    LET results == [i \in 1..Len(commands) |-> HandleMulticommandResult(commands[i], outcomes[i])] IN
    IF \E i \in 1..Len(commands) : results[i].kind = "raise"
    THEN Raise(results[CHOOSE i \in 1..Len(commands) : results[i].kind = "raise"].exc)
    ELSE LET all_data == [i \in 1..Len(commands) |-> results[i].val] IN
         Return(DictSet(MergeAll(PyDict(<<>>), all_data, 1), "multicommand", PyBool(TRUE)))


(***************************************************************************)
(* The per-endpoint wrappers: each is one call of send_privileged_command  *)
(* or of send_command.                                                     *)
(***************************************************************************)
SendPrivileged(command, parameters) ==
    [fn |-> "send_privileged_command", command |-> command, parameters |-> parameters]

Send(command, parameters) ==
    [fn |-> "send_command", command |-> command, parameters |-> parameters]

Param(val) == << <<"param", val>> >>

\* the conf dict set_network builds for a static configuration
NetworkConf(a) ==
    PyDict(<< <<"address", a[2]>>, <<"dns", a[3]>>, <<"dns2", a[4]>>,
              <<"gateway", a[5]>>, <<"mac_address", a[6]>>, <<"netmask", a[7]>> >>)

\* the call each wrapper makes, for its argument tuple a
Wrapper(op, a) ==
    CASE op = "clear_hashrate" -> SendPrivileged("clearhashrate", <<>>)
      [] op = "coin" -> SendPrivileged("coin", Param(a[1]))
      [] op = "fanspeed" -> SendPrivileged("fanspeed", Param(a[1]))
      [] op = "id" -> SendPrivileged("id", Param(a[1]))
      [] op = "id_variant" -> SendPrivileged("id/variant", Param(a[1]))
      [] op = "identify" -> SendPrivileged("identify", Param(a[1]))
      [] op = "miner" ->
             IF a[1].b THEN SendPrivileged("miner", Param(PyStr("Autostart")))
             ELSE SendPrivileged("miner", Param(PyStr("stop")))
      [] op = "set_network" ->
             IF a[1] = PyStr("dhcp")
             THEN SendPrivileged("network", Param(PyDict(<< <<"dhcp", PyNone>> >>)))
             ELSE Send("network", Param(NetworkConf(a)))
      [] op = "password" -> SendPrivileged("password", Param(a[1]))
      [] op = "set_perpetual_tune" -> SendPrivileged("perpetualtune", Param(a[1]))
      [] op = "perpetual_tune_algo" ->
             SendPrivileged("perpetualtune/algo",
                            Param(PyDict(<< <<"algo", a[1]>>, <<"target", a[2]>> >>)))
      [] op = "perpetual_tune_reset" -> SendPrivileged("perpetualtune/reset", Param(a[1]))
      [] op = "reboot" -> SendPrivileged("reboot", Param(a[1]))
      [] op = "shutdown_temp" -> SendPrivileged("shutdowntemp", Param(a[1]))
      [] op = "soft_reboot" -> SendPrivileged("softreboot", Param(PyNone))
      [] op = "tune" ->
             SendPrivileged("tune", Param(PyDict(<< <<"clks", a[1]>>, <<"voltage", a[2]>> >>)))
      [] op = "tune_clock_all" -> SendPrivileged("tune/clock/all", Param(a[1]))
      [] op = "tune_clock_chip" -> SendPrivileged("tune/clock/chip", Param(a[1]))
      [] op = "tune_clock_voltage" -> SendPrivileged("tune/clock/all", Param(a[1]))
      [] op = "capabilities" -> Send("capabilities", <<>>)
      [] op = "clocks" -> Send("clocks", <<>>)
      [] op = "hashrate" -> Send("hashrate", <<>>)
      [] op = "hashrate_history_continuous" -> Send("hashrate/history/continuous", <<>>)
      [] op = "hashrate_history_discrete" -> Send("hashrate/history/discrete", <<>>)
      [] op = "history" -> Send("history", <<>>)
      [] op = "log" -> Send("log", <<>>)
      [] op = "network" -> Send("network", <<>>)
      [] op = "perpetual_tune" -> Send("perpetualtune", <<>>)
      [] op = "summary" -> Send("summary", <<>>)
      [] op = "temps" -> Send("temps", <<>>)
      [] op = "voltages" -> Send("voltages", <<>>)

NoArgOps ==
    {"clear_hashrate", "soft_reboot", "capabilities", "clocks", "hashrate",
     "hashrate_history_continuous", "hashrate_history_discrete", "history", "log",
     "network", "perpetual_tune", "summary", "temps", "voltages"}

BoolArgOps == {"id", "identify", "miner", "set_perpetual_tune"}

IntArgOps == {"fanspeed", "reboot", "shutdown_temp", "tune_clock_all", "tune_clock_voltage"}

StrArgOps == {"id_variant", "password", "perpetual_tune_reset"}

DictArgOps == {"coin", "tune_clock_chip"}

WrapperOps ==
    NoArgOps \cup BoolArgOps \cup IntArgOps \cup StrArgOps \cup DictArgOps
    \cup {"set_network", "perpetual_tune_algo", "tune"}

\* the argument tuples each wrapper is called with
IntArgs == {PyInt(0), PyInt(75)}

StrArgs == {PyStr("MacAddress"), PyStr("")}

DictArgs == {PyDict(<<>>), PyDict(<< <<"coin", PyStr("Btc")>> >>)}

ArgChoices(op) ==
    IF op \in NoArgOps THEN {<<>>}
    ELSE IF op \in BoolArgOps THEN {<<PyBool(TRUE)>>, <<PyBool(FALSE)>>}
    ELSE IF op \in IntArgOps THEN {<<n>> : n \in IntArgs}
    ELSE IF op \in StrArgOps THEN {<<x>> : x \in StrArgs}
    ELSE IF op \in DictArgOps THEN {<<d>> : d \in DictArgs}
    ELSE IF op = "set_network"
    THEN {<<PyStr(proto), PyStr("10.0.0.9"), PyStr("10.0.0.1"), PyStr("10.0.0.2"),
            PyStr("10.0.0.1"), PyStr("aa:bb:cc:dd:ee:ff"), PyStr("255.255.255.0")>> :
            proto \in {"dhcp", "static"}}
    ELSE IF op = "perpetual_tune_algo"
    THEN {<<PyStr("VoltageOptimizer"), n>> : n \in IntArgs}
    ELSE {<<n, m>> : n \in IntArgs, m \in IntArgs}


(***************************************************************************)
(* The device, as the transport client sees it.                            *)
(***************************************************************************)
\* the outcomes of one exchange, the timeout apart (see Timeout)
DeviceOutcomes ==
    {Exception("ConnectError"), Exception("RemoteProtocolError")}
    \cup {Response(200, b) : b \in GoodBodies \cup BadBodies \cup InvalidBytesBodies}
    \cup {Response(500, <<>>), Response(401, AuthErrorBody)}

\* the longest argument tuple of multicommand
MaxCommands == 2

\* the command names multicommand is called with
BatchCommands == {"summary", "network", "hashrate", "multicommand"}

RECURSIVE Tuples(_, _)
Tuples(S, n) ==
    IF n = 0 THEN {<<>>}
    ELSE Tuples(S, n - 1) \cup {Append(t, x) : t \in {u \in Tuples(S, n - 1) : Len(u) = n - 1}, x \in S}

\* the commands and keyword arguments send_command is called with directly
DirectCommands == {"summary", "reboot"}

DirectParameters ==
    {<<>>, Param(PyInt(0)), << <<"param", PyNone>>, <<"extra", PyStr("x")>> >>}

NoCall == [op |-> "", args |-> <<>>, fn |-> "", command |-> "", parameters |-> <<>>, commands |-> <<>>]

NoReturn == [kind |-> "", val |-> PyNone, exc |-> ""]

Pending == [done |-> FALSE, out |-> Exception("")]

Done(outcome) == [done |-> TRUE, out |-> outcome]

\* the call send.fn(send.command, **send.parameters) starts: its one request is in flight
StartSend(op, args, send) ==
    /\ wpc = "idle"
    /\ wpc' = "inflight"
    /\ wcall' = [op |-> op, args |-> args, fn |-> send.fn, command |-> send.command,
                 parameters |-> send.parameters, commands |-> <<>>]
    /\ wreqs' = << SendCommandRequest(send.command,
                                       IF send.fn = "send_privileged_command"
                                       THEN PrivilegedParameters(send.parameters)
                                       ELSE send.parameters) >>
    /\ wtasks' = <<Pending>>
    /\ wret' = NoReturn
    /\ UNCHANGED engvars

\* one of the wrappers is called
CallWrapper ==
    \E op \in WrapperOps : \E a \in ArgChoices(op) : StartSend(op, a, Wrapper(op, a))

\* send_command(command, **parameters)
CallSendCommand ==
    \E command \in DirectCommands, parameters \in DirectParameters :
        StartSend("send_command", <<>>, Send(command, parameters))

\* send_privileged_command(command, **parameters)
CallSendPrivilegedCommand ==
    \E command \in DirectCommands, parameters \in DirectParameters :
        StartSend("send_privileged_command", <<>>, SendPrivileged(command, parameters))

\* multicommand(*commands): one task per argument, each with its GET in flight
CallMulticommand ==
    /\ wpc = "idle"
    /\ \E commands \in Tuples(BatchCommands, MaxCommands) :
        /\ wpc' = "inflight"
        /\ wcall' = [op |-> "multicommand", args |-> <<>>, fn |-> "multicommand", command |-> "",
                     parameters |-> <<>>, commands |-> commands]
        /\ wreqs' = [i \in 1..Len(commands) |-> ClientGet(Url(commands[i]))]
        /\ wtasks' = [i \in 1..Len(commands) |-> Pending]
        /\ wret' = NoReturn
        /\ UNCHANGED engvars

\* the exchange of request i ends: the device answers, or the connection fails
Respond ==
    /\ wpc = "inflight"
    /\ \E i \in {j \in 1..Len(wtasks) : ~wtasks[j].done} : \E outcome \in DeviceOutcomes :
        /\ wtasks' = [wtasks EXCEPT ![i] = Done(outcome)]
        /\ UNCHANGED <<wpc, wcall, wreqs, wret>>
        /\ UNCHANGED engvars

\* the device has not answered request i within the request's timeout
Timeout ==
    /\ wpc = "inflight"
    /\ \E i \in {j \in 1..Len(wtasks) : ~wtasks[j].done} :
        /\ wreqs[i].timeout # {}
        /\ wtasks' = [wtasks EXCEPT ![i] = Done(Exception("ReadTimeout"))]
        /\ UNCHANGED <<wpc, wcall, wreqs, wret>>
        /\ UNCHANGED engvars

\* every exchange of the call has ended: the call returns or raises
WebReturn ==
    /\ wpc = "inflight"
    /\ \A i \in 1..Len(wtasks) : wtasks[i].done
    /\ wret' = IF wcall.fn = "multicommand"
               THEN MulticommandResult(wcall.commands, [i \in 1..Len(wtasks) |-> wtasks[i].out])
               ELSE SendCommandResult(wtasks[1].out)
    /\ wpc' = "returned"
    /\ UNCHANGED <<wcall, wreqs, wtasks>>
    /\ UNCHANGED engvars

\* the caller has its answer; the client is free for the next call
WebFinish ==
    /\ wpc = "returned"
    /\ wpc' = "idle"
    /\ wcall' = NoCall
    /\ wreqs' = <<>>
    /\ wtasks' = <<>>
    /\ wret' = NoReturn
    /\ UNCHANGED engvars


(***************************************************************************)
(* EPICMINER_DATA_LOC: per field, the extractor ("cmd") and the shared     *)
(* resources it is handed ("kwargs": argument name and web command).       *)
(***************************************************************************)
Loc(cmd, kwargs) == [cmd |-> cmd, kwargs |-> kwargs]

WebSummary == << <<"web_summary", "summary">> >>

\* the methods of EPICMiner that the registry's "cmd" may name
Methods ==
    {"get_mac", "get_model", "get_api_ver", "get_fw_ver", "get_hostname", "get_hashrate",
     "get_nominal_hashrate", "get_hashboards", "get_wattage", "get_wattage_limit", "get_fans",
     "get_fan_psu", "get_env_temp", "get_errors", "get_fault_light", "get_pools", "is_mining",
     "get_uptime"}

\* the registry as it would be with the extractor of "uptime" misspelt
RegistryWithMisspeltExtractor ==
    [mac |-> Loc("get_mac", << <<"web_network", "network">> >>),
     model |-> Loc("get_model", <<>>),
     api_ver |-> Loc("get_api_ver", <<>>),
     fw_ver |-> Loc("get_fw_ver", WebSummary),
     hostname |-> Loc("get_hostname", WebSummary),
     hashrate |-> Loc("get_hashrate", << <<"web_hashrate", "hashrate">> >>),
     nominal_hashrate |-> Loc("get_nominal_hashrate", <<>>),
     hashboards |-> Loc("get_hashboards", <<>>),
     wattage |-> Loc("get_wattage", WebSummary),
     wattage_limit |-> Loc("get_wattage_limit", WebSummary),
     fans |-> Loc("get_fans", WebSummary),
     fan_psu |-> Loc("get_fan_psu", <<>>),
     env_temp |-> Loc("get_env_temp", WebSummary),
     temperature_avg |-> Loc("get_env_temp", WebSummary),
     errors |-> Loc("get_errors", <<>>),
     fault_light |-> Loc("get_fault_light", <<>>),
     pools |-> Loc("get_pools", WebSummary),
     is_mining |-> Loc("is_mining", <<>>),
     uptime |-> Loc("uptime", <<>>)]

EPICMINER_DATA_LOC ==
    [mac |-> Loc("get_mac", << <<"web_network", "network">> >>),
     model |-> Loc("get_model", <<>>),
     api_ver |-> Loc("get_api_ver", <<>>),
     fw_ver |-> Loc("get_fw_ver", WebSummary),
     hostname |-> Loc("get_hostname", WebSummary),
     hashrate |-> Loc("get_hashrate", << <<"web_hashrate", "hashrate">> >>),
     nominal_hashrate |-> Loc("get_nominal_hashrate", <<>>),
     hashboards |-> Loc("get_hashboards", <<>>),
     wattage |-> Loc("get_wattage", WebSummary),
     wattage_limit |-> Loc("get_wattage_limit", WebSummary),
     fans |-> Loc("get_fans", WebSummary),
     fan_psu |-> Loc("get_fan_psu", <<>>),
     env_temp |-> Loc("get_env_temp", WebSummary),
     temperature_avg |-> Loc("get_env_temp", WebSummary),
     errors |-> Loc("get_errors", <<>>),
     fault_light |-> Loc("get_fault_light", <<>>),
     pools |-> Loc("get_pools", WebSummary),
     is_mining |-> Loc("is_mining", <<>>),
     uptime |-> Loc("get_uptime", <<>>)]

(***************************************************************************)
(* Python's subscription and arithmetic, as far as the extractors use them *)
(***************************************************************************)
LookupError == {"KeyError", "IndexError"}

Found(val) == [ok |-> TRUE, val |-> val, exc |-> ""]

Failed(exc) == [ok |-> FALSE, val |-> PyNone, exc |-> exc]

\* val[key]
Sub(val, key) ==
    CASE val.ty = "dict" ->
             IF key.ty = "str" /\ HasKey(val, key.s) THEN Found(Get(val, key.s))
             ELSE Failed("KeyError")
      [] val.ty = "list" ->
             IF key.ty # "int" THEN Failed("TypeError")
             ELSE IF key.n >= 0 /\ key.n < Len(val.items) THEN Found(val.items[key.n + 1])
             ELSE IF key.n < 0 /\ -key.n <= Len(val.items)
             THEN Found(val.items[Len(val.items) + key.n + 1])
             ELSE Failed("IndexError")
      [] OTHER -> Failed("TypeError")

\* val[k1][k2]
Sub2(val, k1, k2) ==
    LET r == Sub(val, k1) IN IF r.ok THEN Sub(r.val, k2) ELSE r

IsNumber(x) == x.ty \in {"int", "float"}

\* a + b
Add(a, b) ==
    IF a.ty = "int" /\ b.ty = "int" THEN PyInt(a.n + b.n)
    ELSE PyFloat(a.n * b.d + b.n * a.d, a.d * b.d)

\* round(x, 2): an int is returned as it is, a float rounded half to even
Round2(x) ==
    IF x.ty = "int" THEN x
    ELSE LET m == x.n * 100
             q == m \div x.d
             r == m % x.d
             up == 2 * r > x.d \/ (2 * r = x.d /\ q % 2 = 1)
         IN PyFloat(IF up THEN q + 1 ELSE q, 100)

\* s.replace("stratum+tcp://", "").replace("stratum2+tcp://", ""), on the urls of the model
StripScheme(s) ==
    CASE s = "stratum+tcp://pool.a:3333" -> "pool.a:3333"
      [] s = "stratum2+tcp://pool.b:3333" -> "pool.b:3333"
      [] OTHER -> s

(***************************************************************************)
(* The extractors.  Each takes the backend's stored values (self) and the  *)
(* resource it works on, once any fetch of its own is over, and gives what *)
(* it returns or raises and the values it leaves stored.                   *)
(***************************************************************************)
Self(fw, host, mdl) == [fw_ver |-> fw, hostname |-> host, model |-> mdl]

Out(ret, self) == [ret |-> ret, fw_ver |-> self.fw_ver, hostname |-> self.hostname]

\* try: return <lookup>  except LookupError: pass; then fall through to `fallback`
ReturnLookup(r, fallback, self) ==
    IF r.ok THEN Out(Return(r.val), self)
    ELSE IF r.exc \in LookupError THEN Out(Return(fallback), self)
    ELSE Out(Raise(r.exc), self)

get_mac(self, web_network) ==
    IF web_network # PyNone
    THEN ReturnLookup(Sub2(web_network, PyStr("dhcp"), PyStr("mac_address")), self.fw_ver, self)
    ELSE Out(Return(self.fw_ver), self)

get_model(self) ==
    IF self.model # PyNone
    THEN Out(Return(PyStr(self.model.s \o " (ePIC)")), self)
    ELSE Out(Return(PyStr("? (ePIC)")), self)

get_api_ver(self) == Out(Return(PyNone), self)

get_fw_ver(self, web_summary) ==
    IF web_summary # PyNone
    THEN LET r == Sub(web_summary, PyStr("Software")) IN
         IF r.ok THEN [ret |-> Return(r.val), fw_ver |-> r.val, hostname |-> self.hostname]
         ELSE IF r.exc \in LookupError THEN Out(Return(self.fw_ver), self)
         ELSE Out(Raise(r.exc), self)
    ELSE Out(Return(self.fw_ver), self)

get_hostname(self, web_summary) ==
    IF web_summary # PyNone
    THEN LET r == Sub(web_summary, PyStr("Hostname")) IN
         IF r.ok THEN [ret |-> Return(r.val), fw_ver |-> self.fw_ver, hostname |-> r.val]
         ELSE IF r.exc \in LookupError THEN Out(Return(self.hostname), self)
         ELSE Out(Raise(r.exc), self)
    ELSE Out(Return(self.hostname), self)

get_nominal_hashrate(self) == Out(Return(PyNone), self)

\* for d in web_hashrate: total_hash += d["Total"][0] / 1000000
RECURSIVE TotalHash(_, _, _)
TotalHash(elems, i, total_hash) ==
    IF i > Len(elems) THEN Found(total_hash)
    ELSE LET r == Sub2(elems[i], PyStr("Total"), PyInt(0)) IN
         IF ~r.ok THEN r
         ELSE IF ~IsNumber(r.val) THEN Failed("TypeError")
         ELSE TotalHash(elems, i + 1, Add(total_hash, PyFloat(r.val.n, r.val.d * 1000000)))

\* what `for d in val` walks over: the items of a list, the keys of a dict
Iter(val) ==
    CASE val.ty = "list" -> Found(val)
      [] val.ty = "dict" -> Found(PyList([i \in 1..Len(val.pairs) |-> PyStr(val.pairs[i][1])]))
      [] OTHER -> Failed("TypeError")

get_hashrate(self, web_hashrate) ==
    IF web_hashrate # PyNone
    THEN LET it == Iter(web_hashrate) IN
         IF ~it.ok THEN Out(Raise(it.exc), self)
         ELSE ReturnLookup(TotalHash(it.val.items, 1, PyInt(0)), self.hostname, self)
    ELSE Out(Return(self.hostname), self)


\* self.ideal_hashboards and self.nominal_chips of the miner type
IdealHashboards == 3

NominalChips == 76

\* HashBoard(slot=i, expected_chips=self.nominal_chips)
HashBoard(slot) ==
    PyDict(<< <<"slot", PyInt(slot)>>, <<"hashrate", PyNone>>, <<"temp", PyNone>>,
              <<"chip_temp", PyNone>>, <<"expected_chips", PyInt(NominalChips)>>,
              <<"missing", PyBool(TRUE)>> >>)

\* hashboards[idx].<attr> = val
SetBoard(hashboards, idx, attr, val) ==
    [hashboards EXCEPT ![idx + 1] = DictSet(@, attr, val)]

\* the body of `for idx in range(len(hb_list))`, up to the first exception
RECURSIVE UpdateBoards(_, _, _, _)
UpdateBoards(hashboards, hb_list, n, idx) ==
    IF idx >= n THEN [boards |-> hashboards, exc |-> ""]
    ELSE LET hr == Sub2(Sub(hb_list, PyInt(idx)).val, PyStr("Hashrate"), PyInt(0))
             tp == Sub(Sub(hb_list, PyInt(idx)).val, PyStr("Temperature"))
         IN
         IF ~Sub(hb_list, PyInt(idx)).ok
         THEN [boards |-> hashboards, exc |-> Sub(hb_list, PyInt(idx)).exc]
         ELSE IF ~hr.ok THEN [boards |-> hashboards, exc |-> hr.exc]
         ELSE IF ~IsNumber(hr.val) THEN [boards |-> hashboards, exc |-> "TypeError"]
         ELSE IF idx >= Len(hashboards) THEN [boards |-> hashboards, exc |-> "IndexError"]
         ELSE LET b1 == SetBoard(hashboards, idx, "hashrate",
                                 Round2(PyFloat(hr.val.n, hr.val.d * 1000000)))
              IN
              IF ~tp.ok THEN [boards |-> b1, exc |-> tp.exc]
              ELSE IF ~IsNumber(tp.val) THEN [boards |-> b1, exc |-> "TypeError"]
              ELSE UpdateBoards(
                       SetBoard(SetBoard(SetBoard(b1, idx, "temp", Round2(tp.val)),
                                         idx, "chip_temp", Round2(tp.val)),
                                idx, "missing", PyBool(FALSE)),
                       hb_list, n, idx + 1)

\* len(val)
HasLen(val) == val.ty \in {"list", "dict", "str"}

PyLen(val) == IF val.ty = "list" THEN Len(val.items) ELSE Len(val.pairs)

get_hashboards(self, web_summary) ==
    LET hashboards == [i \in 1..IdealHashboards |-> HashBoard(i - 1)] IN
    IF web_summary # PyNone
    THEN LET r == Sub(web_summary, PyStr("HBs")) IN
         IF ~r.ok
         THEN IF r.exc \in LookupError THEN Out(Return(PyList(hashboards)), self)
              ELSE Out(Raise(r.exc), self)
         ELSE IF ~HasLen(r.val) THEN Out(Raise("TypeError"), self)
         ELSE LET u == UpdateBoards(hashboards, r.val, PyLen(r.val), 0) IN
              IF u.exc = "" \/ u.exc \in LookupError THEN Out(Return(PyList(u.boards)), self)
              ELSE Out(Raise(u.exc), self)
    ELSE Out(Return(PyList(hashboards)), self)

\* for i, d in enumerate(web_summary["HBs"]): temp_avg += d["Temperature"]; count += i
RECURSIVE TempSum(_, _, _, _)
TempSum(elems, i, temp_avg, count) ==
    IF i > Len(elems) THEN [ok |-> TRUE, exc |-> "", temp_avg |-> temp_avg, count |-> count]
    ELSE LET r == Sub(elems[i], PyStr("Temperature")) IN
         IF ~r.ok THEN [ok |-> FALSE, exc |-> r.exc, temp_avg |-> temp_avg, count |-> count]
         ELSE IF ~IsNumber(r.val)
         THEN [ok |-> FALSE, exc |-> "TypeError", temp_avg |-> temp_avg, count |-> count]
         ELSE TempSum(elems, i + 1, Add(temp_avg, r.val), count + (i - 1))

get_env_temp(self, web_summary) ==
    IF web_summary # PyNone
    THEN LET r == Sub(web_summary, PyStr("HBs")) IN
         IF ~r.ok
         THEN IF r.exc \in LookupError THEN Out(Return(PyNone), self)
              ELSE Out(Raise(r.exc), self)
         ELSE LET it == Iter(r.val) IN
              IF ~it.ok THEN Out(Raise(it.exc), self)
              ELSE LET t == TempSum(it.val.items, 1, PyInt(0), 0) IN
                   IF ~t.ok
                   THEN IF t.exc \in LookupError THEN Out(Return(PyNone), self)
                        ELSE Out(Raise(t.exc), self)
                   ELSE IF t.count = 0 THEN Out(Raise("ZeroDivisionError"), self)
                   ELSE Out(Return(PyFloat(t.temp_avg.n, t.temp_avg.d * t.count)), self)
    ELSE Out(Return(PyNone), self)

get_wattage(self, web_summary) ==
    IF web_summary # PyNone
    THEN ReturnLookup(Sub2(web_summary, PyStr("Power Supply Stats"), PyStr("Input Power")),
                      PyNone, self)
    ELSE Out(Return(PyNone), self)

get_wattage_limit(self, web_summary) ==
    IF web_summary # PyNone
    THEN ReturnLookup(Sub2(web_summary, PyStr("Power Supply Stats"), PyStr("Target Voltage")),
                      PyNone, self)
    ELSE Out(Return(PyNone), self)

\* Fan(speed=fan_value)
Fan(speed) == PyDict(<< <<"speed", speed>> >>)

\* for i, d in enumerate(rpm): fans.append(Fan(speed=rpm[f"{d}"])), up to the first exception
RECURSIVE AppendFans(_, _, _, _)
AppendFans(rpm, elems, i, fans) ==
    IF i > Len(elems) THEN [fans |-> fans, exc |-> ""]
    ELSE LET r == Sub(rpm, PyStr(elems[i].s)) IN
         IF ~r.ok THEN [fans |-> fans, exc |-> r.exc]
         ELSE AppendFans(rpm, elems, i + 1, Append(fans, Fan(r.val)))

get_fans(self, web_summary) ==
    IF web_summary # PyNone
    THEN LET r == Sub(web_summary, PyStr("Fans Rpm")) IN
         IF ~r.ok
         THEN IF r.exc \in LookupError THEN Out(Return(PyList(<<>>)), self)
              ELSE Out(Raise(r.exc), self)
         ELSE LET it == Iter(r.val) IN
              IF ~it.ok THEN Out(Raise(it.exc), self)
              ELSE LET a == AppendFans(r.val, it.val.items, 1, <<>>) IN
                   IF a.exc = "" \/ a.exc \in LookupError THEN Out(Return(PyList(a.fans)), self)
                   ELSE Out(Raise(a.exc), self)
    ELSE Out(Return(PyList(<<>>)), self)

get_fan_psu(self) == Out(Return(PyNone), self)

\* for i, pool in enumerate(pools_config): the two entries of pool i+1
RECURSIVE PoolEntries(_, _, _)
PoolEntries(elems, i, pools) ==
    IF i > Len(elems) THEN Found(pools)
    ELSE LET url == Sub(elems[i], PyStr("pool"))
             login == Sub(elems[i], PyStr("login"))
         IN
         IF ~url.ok THEN url
         ELSE IF url.val.ty # "str" THEN Failed("AttributeError")
         ELSE IF ~login.ok THEN login
         ELSE PoolEntries(elems, i + 1,
                  DictSet(DictSet(pools, "pool_" \o ToString(i) \o "_url",
                                  PyStr(StripScheme(url.val.s))),
                          "pool_" \o ToString(i) \o "_user", login.val))

get_pools(self, web_summary) ==
    IF web_summary # PyNone
    THEN LET r == Sub(web_summary, PyStr("StratumConfigs"))
             it == Iter(r.val)
             e == PoolEntries(it.val.items, 1, PyDict(<<>>))
         IN
         IF r.ok /\ it.ok /\ e.ok THEN Out(Return(PyList(<<e.val>>)), self)
         ELSE Out(Return(PyList(<<>>)), self)
    ELSE Out(Raise("UnboundLocalError"), self)

get_errors(self) == Out(Return(PyNone), self)

get_fault_light(self) == Out(Return(PyNone), self)

is_mining(self, web_summary) ==
    IF web_summary # PyNone
    THEN LET r == Sub2(web_summary, PyStr("Status"), PyStr("Operating State")) IN
         IF r.ok THEN Out(Return(PyBool(r.val = PyStr("Mining"))), self)
         ELSE IF r.exc \in LookupError THEN Out(Return(PyNone), self)
         ELSE Out(Raise(r.exc), self)
    ELSE Out(Return(PyNone), self)

get_uptime(self, data) ==
    IF data # PyNone
    THEN LET r == Sub2(data, PyStr("Session"), PyStr("Uptime")) IN
         IF r.ok THEN Out(Return(r.val), self) ELSE Out(Raise(r.exc), self)
    ELSE Out(Return(PyNone), self)

\* getattr(self, cmd), called on the resource
Extractor(cmd, self, data) ==
    CASE cmd = "get_mac" -> get_mac(self, data)
      [] cmd = "get_model" -> get_model(self)
      [] cmd = "get_api_ver" -> get_api_ver(self)
      [] cmd = "get_fw_ver" -> get_fw_ver(self, data)
      [] cmd = "get_hostname" -> get_hostname(self, data)
      [] cmd = "get_hashrate" -> get_hashrate(self, data)
      [] cmd = "get_nominal_hashrate" -> get_nominal_hashrate(self)
      [] cmd = "get_hashboards" -> get_hashboards(self, data)
      [] cmd = "get_wattage" -> get_wattage(self, data)
      [] cmd = "get_wattage_limit" -> get_wattage_limit(self, data)
      [] cmd = "get_fans" -> get_fans(self, data)
      [] cmd = "get_fan_psu" -> get_fan_psu(self)
      [] cmd = "get_env_temp" -> get_env_temp(self, data)
      [] cmd = "get_errors" -> get_errors(self)
      [] cmd = "get_fault_light" -> get_fault_light(self)
      [] cmd = "get_pools" -> get_pools(self, data)
      [] cmd = "is_mining" -> is_mining(self, data)
      [] cmd = "get_uptime" -> get_uptime(self, data)

\* the command an extractor sends for itself when it is handed no resource
\* (`if web_summary is None: web_summary = await self.web.summary()`), "" if none
OwnFetch(cmd) ==
    CASE cmd = "get_mac" -> "network"
      [] cmd = "get_hashrate" -> "hashrate"
      [] cmd \in {"get_fw_ver", "get_hostname", "get_hashboards", "get_env_temp", "get_wattage",
                  "get_wattage_limit", "get_fans", "get_pools", "is_mining", "get_uptime"}
             -> "summary"
      [] OTHER -> ""


(***************************************************************************)
(* The device, as the backend sees it: the outcomes of an exchange.        *)
(***************************************************************************)
\* an exchange fails: no answer within the timeout, or an answer that is an error
FailedExchanges == {Exception("ReadTimeout"), Response(500, <<>>)}

SummaryOutcomes == FailedExchanges \cup {Response(200, JsonDumps(b)) : b \in Bodies("summary")}

NetworkOutcomes == FailedExchanges \cup {Response(200, JsonDumps(b)) : b \in Bodies("network")}

HashrateOutcomes == FailedExchanges \cup {Response(200, JsonDumps(b)) : b \in Bodies("hashrate")}

\* the outcomes of one exchange with endpoint `command`
EndpointOutcomes(command) ==
    CASE command = "summary" -> SummaryOutcomes
      [] command = "network" -> NetworkOutcomes
      [] command = "hashrate" -> HashrateOutcomes
      [] OTHER -> {}

\* the exchange gave the caller a decoded response
TransportOk(outcome) ==
    outcome.kind = "response" /\ outcome.status = 200 /\ JsonLoads(outcome.body).ok

(***************************************************************************)
(* One aggregation round: collect(fieldNames).                             *)
(***************************************************************************)
\* the longest field list of a round
MaxFields == 3

Registered == DOMAIN EPICMINER_DATA_LOC

FieldNames == Registered \cup {"nonexistent_field"}

\* F without its repetitions, in first-seen order
RECURSIVE DedupFrom(_, _, _)
DedupFrom(F, i, acc) ==
    IF i > Len(F) THEN acc
    ELSE DedupFrom(F, i + 1, IF F[i] \in Range(acc) THEN acc ELSE Append(acc, F[i]))

Dedup(F) == DedupFrom(F, 1, <<>>)

\* the field lists a round is called with
FieldLists == Tuples(FieldNames, MaxFields)

\* the distinct web commands the kwargs of the fields name, in first-seen order
RECURSIVE ResourcesFrom(_, _, _)
ResourcesFrom(fs, i, acc) ==
    IF i > Len(fs) THEN acc
    ELSE LET kwargs == EPICMINER_DATA_LOC[fs[i]].kwargs
             new == [j \in 1..Len(kwargs) |-> kwargs[j][2]]
         IN ResourcesFrom(fs, i + 1, DedupFrom(acc \o new, 1, <<>>))

DistinctResources(fs) == ResourcesFrom(fs, 1, <<>>)

\* the argument the round hands to the extractor of field f: the cached resource of
\* its kwarg, or nothing (the parameter's default, None) when it declares none
ArgToSend(f, resources) ==
    LET kwargs == EPICMINER_DATA_LOC[f].kwargs IN
    IF kwargs = <<>> THEN PyNone
    ELSE IF kwargs[1][2] \in DOMAIN resources THEN resources[kwargs[1][2]]
    ELSE PyNone

\* the extractor of f sends a request of its own before it computes
NeedsOwnFetch(f, resources) ==
    /\ OwnFetch(EPICMINER_DATA_LOC[f].cmd) # ""
    /\ ArgToSend(f, resources) = PyNone

NoSent == [c \in Commands |-> 0]

ResetRound ==
    /\ request' = {}
    /\ batch' = <<>>
    /\ cache' = <<>>
    /\ ext' = <<>>
    /\ result' = <<>>
    /\ sent' = NoSent
    /\ anyOk' = FALSE

\* resolve: a name with no registered spec (UnknownField), or a spec whose extractor
\* is no method of the backend (a malformed FieldSpec), fails the whole call
Unresolvable(F) ==
    \E i \in 1..Len(F) : F[i] \notin Registered \/ EPICMINER_DATA_LOC[F[i]].cmd \notin Methods

\* collect(F): deduplicate, resolve, and start the fan-out of the distinct resources
Collect ==
    /\ epc = "idle"
    /\ \E F \in FieldLists :
        /\ request' = Range(F)
        /\ IF Unresolvable(F)
           THEN /\ epc' = "failed"
                /\ batch' = <<>>
                /\ ext' = <<>>
                /\ sent' = NoSent
           ELSE LET rs == DistinctResources(Dedup(F)) IN
                /\ epc' = IF rs = <<>> THEN "extracting" ELSE "fetching"
                /\ batch' = rs
                /\ ext' = [f \in Range(Dedup(F)) |-> "todo"]
                /\ sent' = [c \in Commands |-> Cardinality({i \in 1..Len(rs) : rs[i] = c})]
        /\ cache' = <<>>
        /\ result' = <<>>
        /\ anyOk' = FALSE
        /\ UNCHANGED selfvars
        /\ UNCHANGED <<webvars, direct>>

\* one outcome per command of the batch
RECURSIVE OutcomeTuples(_, _)
OutcomeTuples(commands, n) ==
    IF n = 0 THEN {<<>>}
    ELSE {Append(t, o) : t \in OutcomeTuples(commands, n - 1), o \in EndpointOutcomes(commands[n])}

\* self.web.multicommand(*batch) returns: the round has its resources
FanOut ==
    /\ epc = "fetching"
    /\ \E outcomes \in OutcomeTuples(batch, Len(batch)) :
        /\ LET r == MulticommandResult(batch, outcomes) IN
           /\ epc' = IF r.kind = "return" THEN "extracting" ELSE "failed"
           /\ cache' = IF r.kind = "return"
                       THEN [c \in Range(batch) |-> IF HasKey(r.val, c) THEN Get(r.val, c) ELSE PyNone]
                       ELSE <<>>
        /\ batch' = <<>>
        /\ anyOk' = \E i \in 1..Len(outcomes) : TransportOk(outcomes[i])
        /\ UNCHANGED <<request, ext, result, sent>>
        /\ UNCHANGED selfvars
        /\ UNCHANGED <<webvars, direct>>

\* the extractor of f has returned or raised: record its value, or Absent if it
\* raised or returned nothing; what it stored on the backend stays stored
Record(f, o) ==
    /\ result' = (f :> (IF o.ret.kind = "return" THEN o.ret.val ELSE PyNone)) @@ result
    /\ fw_ver' = o.fw_ver
    /\ hostname' = o.hostname
    /\ ext' = [ext EXCEPT ![f] = "done"]
    /\ UNCHANGED model

\* the extractor of f runs on the resource it was handed
Extract ==
    /\ epc = "extracting"
    /\ \E f \in DOMAIN ext :
        /\ ext[f] = "todo"
        /\ ~NeedsOwnFetch(f, cache)
        /\ Record(f, Extractor(EPICMINER_DATA_LOC[f].cmd, Self(fw_ver, hostname, model),
                               ArgToSend(f, cache)))
        /\ UNCHANGED <<epc, request, batch, cache, sent, anyOk>>
        /\ UNCHANGED <<webvars, direct>>

\* the extractor of f was handed nothing: it sends its command itself and waits
ExtractFetch ==
    /\ epc = "extracting"
    /\ \E f \in DOMAIN ext :
        /\ ext[f] = "todo"
        /\ NeedsOwnFetch(f, cache)
        /\ sent' = [sent EXCEPT ![OwnFetch(EPICMINER_DATA_LOC[f].cmd)] = @ + 1]
        /\ ext' = [ext EXCEPT ![f] = "waiting"]
        /\ UNCHANGED <<epc, request, batch, cache, result, anyOk>>
        /\ UNCHANGED selfvars
        /\ UNCHANGED <<webvars, direct>>

\* its send_command returns: the extractor goes on with what it got
ExtractResume ==
    /\ epc = "extracting"
    /\ \E f \in {g \in DOMAIN ext : ext[g] = "waiting"} :
        \E outcome \in EndpointOutcomes(OwnFetch(EPICMINER_DATA_LOC[f].cmd)) :
            /\ LET data == SendCommandResult(outcome) IN
               Record(f, IF data.kind = "return"
                         THEN Extractor(EPICMINER_DATA_LOC[f].cmd,
                                        Self(fw_ver, hostname, model), data.val)
                         ELSE Out(data, Self(fw_ver, hostname, model)))
            /\ anyOk' = (anyOk \/ TransportOk(outcome))
            /\ UNCHANGED <<epc, request, batch, cache, sent>>
            /\ UNCHANGED <<webvars, direct>>

\* every extractor is through: the result mapping is complete
ExtractDone ==
    /\ epc = "extracting"
    /\ \A f \in DOMAIN ext : ext[f] = "done"
    /\ epc' = "done"
    /\ UNCHANGED <<request, batch, cache, ext, result, sent, anyOk>>
    /\ UNCHANGED selfvars
    /\ UNCHANGED <<webvars, direct>>

\* the caller has the result (or the error); the backend is free for the next poll
CollectReturn ==
    /\ epc \in {"done", "failed"}
    /\ epc' = "idle"
    /\ ResetRound
    /\ UNCHANGED selfvars
    /\ UNCHANGED <<webvars, direct>>

(***************************************************************************)
(* An extractor called by itself: await miner.get_pools(), get_env_temp(s) *)
(***************************************************************************)
\* the most hashboards a summary of a direct call reports
MaxBoards == 4

\* the temperature board i reports
Temperature(i) == 55 + i * i

\* a summary that reports n hashboards
SummaryOfBoards(n) ==
    PyDict(<< <<"HBs", PyList([i \in 1..n |-> Board(30000000, Temperature(i))])>> >>)

\* a summary whose pool entries are not mappings
SummaryBadPools == PyDict(<< <<"StratumConfigs", PyList(<<PyStr("pool.c:3333")>>)>> >>)

\* the resources an extractor is called with: nothing, an empty mapping, a document
DirectArgs(cmd) ==
    IF OwnFetch(cmd) = "" \/ cmd = "get_uptime" THEN {PyNone}
    ELSE {PyNone, PyDict(<<>>)} \cup Bodies(OwnFetch(cmd))
         \cup (IF OwnFetch(cmd) = "summary"
                THEN {SummaryOfBoards(n) : n \in 0..MaxBoards} \cup {SummaryBadPools}
                ELSE {})

NoDirect == [pc |-> "idle", cmd |-> "", arg |-> PyNone, got |-> PyNone, ret |-> NoReturn]

\* getattr(miner, cmd)(arg): the extractor computes at once, or first sends its own
\* request when it was handed nothing
CallExtractor ==
    /\ direct.pc = "idle"
    /\ \E cmd \in Methods : \E arg \in DirectArgs(cmd) :
        IF OwnFetch(cmd) # "" /\ arg = PyNone
        THEN /\ direct' = [pc |-> "fetching", cmd |-> cmd, arg |-> arg, got |-> PyNone,
                           ret |-> NoReturn]
             /\ UNCHANGED selfvars
        ELSE LET o == Extractor(cmd, Self(fw_ver, hostname, model), arg) IN
             /\ direct' = [pc |-> "returned", cmd |-> cmd, arg |-> arg, got |-> PyNone,
                           ret |-> o.ret]
             /\ fw_ver' = o.fw_ver
             /\ hostname' = o.hostname
             /\ UNCHANGED model
    /\ UNCHANGED roundvars
    /\ UNCHANGED webvars

\* its own request is over: the extractor goes on with what send_command gave
ExtractorRefetched ==
    /\ direct.pc = "fetching"
    /\ \E outcome \in EndpointOutcomes(OwnFetch(direct.cmd)) :
        LET data == SendCommandResult(outcome)
            o == IF data.kind = "return"
                 THEN Extractor(direct.cmd, Self(fw_ver, hostname, model), data.val)
                 ELSE Out(data, Self(fw_ver, hostname, model))
        IN /\ direct' = [direct EXCEPT !.pc = "returned", !.got = data.val, !.ret = o.ret]
           /\ fw_ver' = o.fw_ver
           /\ hostname' = o.hostname
           /\ UNCHANGED model
    /\ UNCHANGED roundvars
    /\ UNCHANGED webvars

\* the caller has the extractor's answer
ExtractorReturn ==
    /\ direct.pc = "returned"
    /\ direct' = NoDirect
    /\ UNCHANGED selfvars
    /\ UNCHANGED roundvars
    /\ UNCHANGED webvars

(***************************************************************************)
(* The specifications.                                                     *)
(***************************************************************************)
vars == <<wpc, wcall, wreqs, wtasks, wret, fw_ver, hostname, model, epc, request, batch,
          cache, ext, result, sent, anyOk, direct>>

Init ==
    /\ wpc = "idle"
    /\ wcall = NoCall
    /\ wreqs = <<>>
    /\ wtasks = <<>>
    /\ wret = NoReturn
    /\ fw_ver = PyNone
    /\ hostname = PyNone
    /\ model \in {PyNone, PyStr("S19")}
    /\ epc = "idle"
    /\ request = {}
    /\ batch = <<>>
    /\ cache = <<>>
    /\ ext = <<>>
    /\ result = <<>>
    /\ sent = NoSent
    /\ anyOk = FALSE
    /\ direct = NoDirect

\* polls of one EPICMiner object, one after the other
Next ==
    \/ Collect
    \/ FanOut
    \/ Extract
    \/ ExtractFetch
    \/ ExtractResume
    \/ ExtractDone
    \/ CollectReturn

Spec == Init /\ [][Next]_vars

\* calls of single extractors of one EPICMiner object, one after the other
ExtractorNext ==
    \/ CallExtractor
    \/ ExtractorRefetched
    \/ ExtractorReturn

ExtractorSpec == Init /\ [][ExtractorNext]_vars

\* calls of the transport client, one after the other
WebNext ==
    \/ CallWrapper
    \/ CallSendCommand
    \/ CallSendPrivilegedCommand
    \/ CallMulticommand
    \/ Respond
    \/ Timeout
    \/ WebReturn
    \/ WebFinish

WebSpec == Init /\ [][WebNext]_vars

\* the event loop runs a task that can run, and a request's timeout expires
FairWebSpec == WebSpec /\ WF_vars(Timeout) /\ WF_vars(WebReturn)

(***************************************************************************)
(* Properties of the transport client.                                     *)
(***************************************************************************)
\* the call in progress is a send_command, reached directly or through a wrapper
IsSend == wcall.fn \in {"send_command", "send_privileged_command"}

\* the exchange failed: a network-level failure, a non-200 status, or a body that
\* does not decode
ExchangeFailed(outcome) ==
    \/ outcome.kind = "exception"
    \/ outcome.status # 200
    \/ ~JsonLoads(outcome.body).ok

\* C1: send_command never raises to its caller: whatever the outcome of its exchange,
\* the call returns; it returns None when the exchange failed (network-level failure,
\* non-200 status, body that does not decode), and a response value only for a 200
\* answer whose body decodes.
C1_SendCommandNeverRaises ==
    (wpc = "returned" /\ IsSend) =>
        /\ wret.kind = "return"
        /\ ExchangeFailed(wtasks[1].out) => wret.val = PyNone
        /\ ~ExchangeFailed(wtasks[1].out) => wret.val = JsonLoads(wtasks[1].out.body).val

\* the returned multicommand call was for distinct commands, none of them named
\* like the batch marker
PlainBatch ==
    /\ wpc = "returned"
    /\ wcall.fn = "multicommand"
    /\ Cardinality(Range(wcall.commands)) = Len(wcall.commands)
    /\ "multicommand" \notin Range(wcall.commands)

\* C5: multicommand completes without raising and returns one entry per command:
\* None (what send_command gives) for a command whose exchange failed, the decoded
\* response for one whose exchange succeeded, whatever the other exchanges did.
C5_FanOutPartialFailure ==
    PlainBatch =>
        /\ wret.kind = "return"
        /\ \A i \in 1..Len(wcall.commands) :
            /\ HasKey(wret.val, wcall.commands[i])
            /\ Get(wret.val, wcall.commands[i]) =
                   IF ExchangeFailed(wtasks[i].out) THEN PyNone
                   ELSE JsonLoads(wtasks[i].out.body).val

\* the endpoint never answered any request of the returned call
NeverResponded ==
    /\ wpc = "returned"
    /\ Len(wtasks) > 0
    /\ \A i \in 1..Len(wtasks) : wtasks[i].out = Exception("ReadTimeout")

\* C7: every request the transport issues carries a finite timeout, and a call whose
\* endpoint never responds resolves to Absent, without raising: send_command returns
\* None, and multicommand returns with None for each of its commands.
C7_TimeoutResolvesToAbsent ==
    /\ \A i \in 1..Len(wreqs) : wreqs[i].timeout # {}
    /\ NeverResponded =>
        /\ wret.kind = "return"
        /\ IsSend => wret.val = PyNone
        /\ wcall.fn = "multicommand" =>
               \A c \in Range(wcall.commands) \ {"multicommand"} :
                   HasKey(wret.val, c) /\ Get(wret.val, c) = PyNone

\* every call of the transport that is in flight returns (fairness: FairWebSpec)
CallsEventuallyReturn == (wpc = "inflight") ~> (wpc = "returned")

\* C8: send_command issues exactly one request, to /<command> on port 4028: a GET
\* exactly when its parameter mapping is empty, otherwise a POST whose JSON body is
\* that mapping; send_privileged_command issues the request of send_command with
\* password=<credential> added, so always a POST whose body has the key password.
C8_RequestConstruction ==
    (wpc # "idle" /\ IsSend) =>
        /\ Len(wreqs) = 1
        /\ wreqs[1].url = [host |-> Ip, port |-> 4028, path |-> "/" \o wcall.command]
        /\ wcall.fn = "send_command" =>
            /\ wreqs[1].method = "GET" <=> wcall.parameters = <<>>
            /\ wreqs[1].method # "GET" =>
                /\ wreqs[1].method = "POST"
                /\ JsonLoads(wreqs[1].body).ok
                /\ JsonLoads(wreqs[1].body).val = PyDict(wcall.parameters)
        /\ wcall.fn = "send_privileged_command" =>
            /\ wreqs[1].method = "POST"
            /\ JsonLoads(wreqs[1].body).ok
            /\ JsonLoads(wreqs[1].body).val = PyDict(wcall.parameters \o << <<"password", Pwd>> >>)
            /\ HasKey(JsonLoads(wreqs[1].body).val, "password")

\* a privileged call with no parameters of its own is in flight as a POST of the
\* password alone
C8_Witness ==
    /\ wpc = "inflight"
    /\ wcall.fn = "send_privileged_command"
    /\ wcall.parameters = <<>>
    /\ wreqs[1].method = "POST"
    /\ JsonLoads(wreqs[1].body).val = PyDict(<< <<"password", Pwd>> >>)

\* the operations that change the device's state or configuration
StateChangingOps ==
    {"clear_hashrate", "coin", "fanspeed", "id", "id_variant", "identify", "miner",
     "set_network", "password", "set_perpetual_tune", "perpetual_tune_algo",
     "perpetual_tune_reset", "reboot", "shutdown_temp", "soft_reboot", "tune",
     "tune_clock_all", "tune_clock_chip", "tune_clock_voltage"}

\* the operations that only read
ReadOnlyOps ==
    {"capabilities", "clocks", "hashrate", "history", "log", "network", "perpetual_tune",
     "summary", "temps", "voltages"}

\* the request carries a JSON body with the field password
SendsPassword(req) ==
    /\ req.method = "POST"
    /\ JsonLoads(req.body).ok
    /\ JsonLoads(req.body).val.ty = "dict"
    /\ HasKey(JsonLoads(req.body).val, "password")

\* C9: every state-changing operation sends a JSON body with the field password
\* (set_network for 'dhcp' and for 'static'), and every read-only one sends none.
C9_PasswordOnStateChanges ==
    wpc # "idle" =>
        /\ wcall.op \in StateChangingOps => SendsPassword(wreqs[1])
        /\ wcall.op \in ReadOnlyOps => ~SendsPassword(wreqs[1])

\* C10: the mapping multicommand returns has the key 'multicommand' with value True
\* and, besides it, exactly one key per distinct requested command: the marker takes
\* the place of no command's entry.
C10_BatchMarker ==
    (wpc = "returned" /\ wcall.fn = "multicommand" /\ wret.kind = "return") =>
        /\ HasKey(wret.val, "multicommand")
        /\ Get(wret.val, "multicommand") = PyBool(TRUE)
        /\ Len(wret.val.pairs) = Cardinality(Range(wcall.commands)) + 1
        /\ \A c \in Range(wcall.commands) :
               HasKey(wret.val, c) /\ Get(wret.val, c).ty # "bool"

(***************************************************************************)
(* Properties of an aggregation round.                                     *)
(***************************************************************************)
\* the requested fields that declare the resource of command c as a dependency
Dependents(c) ==
    {f \in request \cap Registered :
        \E j \in 1..Len(EPICMINER_DATA_LOC[f].kwargs) : EPICMINER_DATA_LOC[f].kwargs[j][2] = c}

\* C2: fetch-once: when two or more requested fields depend on the same shared
\* resource, the device has received exactly one request for that resource's command
\* by the end of the collect, whatever else was requested and in whatever order the
\* extractors ran.
C2_FetchOnce ==
    epc = "done" =>
        \A c \in Commands : Cardinality(Dependents(c)) >= 2 => sent[c] = 1

\* a round in progress can take a step: the fan-out can return, an extractor can run
\* or send its own command, one that waits for its answer can get it, or all are through
RoundCanStep ==
    \/ epc = "fetching" /\ \A i \in 1..Len(batch) : EndpointOutcomes(batch[i]) # {}
    \/ epc = "extracting" /\ \E f \in DOMAIN ext : ext[f] = "todo"
    \/ epc = "extracting" /\ \E f \in DOMAIN ext :
           ext[f] = "waiting" /\ EndpointOutcomes(OwnFetch(EPICMINER_DATA_LOC[f].cmd)) # {}
    \/ epc = "extracting" /\ \A f \in DOMAIN ext : ext[f] = "done"

C4_UnreachableAllAbsent ==
    (epc = "done" /\ ~anyOk /\ \E c \in Commands : sent[c] > 0) =>
        \A f \in request : result[f] = PyNone

\* C6: no retries: within one collect no command is sent to the device more than once.
C6_NoRetries == \A c \in Commands : sent[c] <= 1

(***************************************************************************)
(* Further properties of the fan-out and of the extractors.                *)
(***************************************************************************)
\* the requests of the call in progress that went to the path of command c
RequestsFor(c) == {i \in 1..Len(wreqs) : wreqs[i].url.path = "/" \o c}

\* C11: multicommand sends exactly one request per distinct command name, also when
\* its argument list repeats a name, and every request of the batch has been started
\* before the first of them is through.
C11_OneCallPerDistinctCommand ==
    (wpc # "idle" /\ wcall.fn = "multicommand") =>
        /\ \A c \in Range(wcall.commands) : Cardinality(RequestsFor(c)) = 1
        /\ (\E i \in 1..Len(wtasks) : wtasks[i].done) =>
               \A c \in Range(wcall.commands) : RequestsFor(c) # {}

\* what a round records for an extractor's outcome: its value, Absent if it raised
Recorded(ret) == IF ret.kind = "return" THEN ret.val ELSE PyNone

\* what the extractor of f gives on a backend that has stored nothing yet, for the
\* responses this round received
FreshValue(f) ==
    Recorded(Extractor(EPICMINER_DATA_LOC[f].cmd, Self(PyNone, PyNone, model),
                       ArgToSend(f, cache)).ret)

\* C12: determinism of a poll: the value recorded for a field that is handed a shared
\* resource is a function of the responses of this collect alone: it is the value a
\* backend with nothing stored gives for them, whatever the order of the extractors
\* of the round and whatever earlier polls received.
C12_Determinism ==
    epc = "done" =>
        \A f \in request : EPICMINER_DATA_LOC[f].kwargs # <<>> => result[f] = FreshValue(f)

\* the fields whose extractors fall back on a stored value
FallbackFields == {"mac", "fw_ver", "hostname", "hashrate"}

\* the data d handed to the extractor of f does not hold the field's value
Unavailable(f, d) ==
    CASE f = "mac" -> ~Sub2(d, PyStr("dhcp"), PyStr("mac_address")).ok
      [] f = "fw_ver" -> ~Sub(d, PyStr("Software")).ok
      [] f = "hostname" -> ~Sub(d, PyStr("Hostname")).ok
      [] f = "hashrate" -> d.ty # "list" \/ ~TotalHash(d.items, 1, PyInt(0)).ok

\* the values field f has when its extraction succeeds on a document of the device
SuccessValues(f) ==
    LET c == EPICMINER_DATA_LOC[f].kwargs[1][2] IN
    {Recorded(Extractor(EPICMINER_DATA_LOC[f].cmd, Self(PyNone, PyNone, model), b).ret) :
        b \in {x \in Bodies(c) : ~Unavailable(f, x)}}

\* what f may answer when its data is unavailable: Absent, or the value of its most
\* recent successful extraction (that is the stored self.fw_ver for fw_ver and the
\* stored self.hostname for hostname; in any case a value of the same field)
FallbackAllowed(f) ==
    CASE f = "fw_ver" -> {PyNone, fw_ver}
      [] f = "hostname" -> {PyNone, hostname}
      [] OTHER -> {PyNone} \cup SuccessValues(f)

\* the extractor of f runs in this step, on data that does not hold the field's value
FailedExtraction(f) ==
    /\ epc = "extracting"
    /\ f \in DOMAIN ext
    /\ ext[f] = "todo"
    /\ f \in DOMAIN ext'
    /\ ext'[f] = "done"
    /\ Unavailable(f, ArgToSend(f, cache))

\* C13: fallback on an Absent dependency: when its data is unavailable each of get_mac,
\* get_fw_ver, get_hostname and get_hashrate answers Absent or the last value the same
\* field had, never the value of another field, and the failed extraction leaves the
\* stored fw_ver and hostname as they were.
C13_FallbackSameField ==
    [][\A f \in FallbackFields :
           FailedExtraction(f) =>
               /\ result'[f] \in FallbackAllowed(f)
               /\ fw_ver' = fw_ver
               /\ hostname' = hostname]_vars

(***************************************************************************)
(* Claims about single extractors (ExtractorSpec).                         *)
(***************************************************************************)
\* the summary a finished direct call worked on: the one it was handed, else the one
\* its own request gave
Worked == IF direct.arg # PyNone THEN direct.arg ELSE direct.got

\* C14: get_pools always returns a list and never raises, whatever it is handed
\* (a summary, nothing with its own request succeeding or failing, a summary without
\* 'StratumConfigs', malformed pool entries); the list is empty when the summary
\* it worked on has no pool data.
C14_GetPoolsAlwaysList ==
    (direct.pc = "returned" /\ direct.cmd = "get_pools") =>
        /\ direct.ret.kind = "return"
        /\ direct.ret.val.ty = "list"
        /\ ~Sub(Worked, PyStr("StratumConfigs")).ok => direct.ret.val = PyList(<<>>)

\* the hashboard entries of the summary a finished direct call worked on, <<>> when
\* the summary is unavailable or has no list under 'HBs'
WorkedBoards ==
    LET r == Sub(Worked, PyStr("HBs")) IN
    IF r.ok /\ r.val.ty = "list" THEN r.val.items ELSE <<>>

\* every entry reports an integer temperature
IntegerTemperatures(boards) ==
    \A i \in 1..Len(boards) :
        LET t == Sub(boards[i], PyStr("Temperature")) IN t.ok /\ t.val.ty = "int"

RECURSIVE SumOfTemperatures(_, _)
SumOfTemperatures(boards, i) ==
    IF i > Len(boards) THEN 0
    ELSE Sub(boards[i], PyStr("Temperature")).val.n + SumOfTemperatures(boards, i + 1)

\* C15: get_env_temp returns the arithmetic mean (sum / n) of the temperatures of the
\* n hashboards of the summary for every n >= 1, and returns Absent without raising
\* when there is no hashboard or the summary is unavailable or lacks the keys.
C15_EnvTempIsMean ==
    (direct.pc = "returned" /\ direct.cmd = "get_env_temp") =>
        IF WorkedBoards # <<>>
        THEN IntegerTemperatures(WorkedBoards) =>
                 direct.ret = Return(PyFloat(SumOfTemperatures(WorkedBoards, 1),
                                             Len(WorkedBoards)))
        ELSE direct.ret = Return(PyNone)
====
